---------------------------- MODULE Spec2Model ----------------------------
(***************************************************************************)
(* Model of AwesomeCluster (src/awesome-cluster.js).  The master side:     *)
(* the worker supervisor (spawnWorker / respawn / fork), the balancer      *)
(* (balance / hash) and the events the master's event loop delivers.  The  *)
(* process side: what start() does in one process, master or worker (role  *)
(* detection, the transport's listen, the worker's message handler).       *)
(*                                                                         *)
(* A callback runs to its first await in one action.  The master's await  *)
(* is that of spawnWorker (line 235), reached from the spawn loop, the     *)
(* exit handler and the message handler: fork() has forked the child, and  *)
(* the rest of spawnWorker, which registers the child's handlers and       *)
(* pushes it on the routing list, runs as a microtask.                     *)
(* Node runs the microtasks once the process.nextTick queue is empty, and  *)
(* before it delivers the next I/O event.  'connection', 'exit' and        *)
(* 'disconnect' are emitted from I/O callbacks, so none of them is handled *)
(* between a fork and its push; 'message' is emitted through               *)
(* process.nextTick, one tick per message of a read of the channel, so the *)
(* handlers of the messages one read brought run back to back while the    *)
(* pushes of the earlier ones are still due.                               *)
(***************************************************************************)
EXTENDS Integers, Sequences, FiniteSets, TLC

----------------------------------------------------------------------------
(* Bounds of the model.                                                    *)

\* most children the master forks in one run (initial spawns and respawns)
MaxForks == 4
\* most connections the listener accepts between two changes of the routing
\* list
MaxConns == 3
\* most {type: "close"} messages the workers send in one run, and most
\* calls of server.close() in one process
MaxClose == 2
\* most workers that run on at one time with their IPC channel closed (after
\* process.disconnect()); the channel of a worker that has ended closes in
\* any case
MaxDisconnects == 2
\* largest options.cluster.workers the model configures
MaxWorkers == 2
\* os.cpus().length of the host
CpuCount == 1
\* most IPC messages one process receives in one run
MaxMsgs == 3
\* most calls of start() by the application in one run
MaxStarts == 2
\* most reads of the isMaster property by the application in one run
MaxReads == 2
\* longest input that is fed to hash() byte by byte
MaxHashLen == 3

----------------------------------------------------------------------------
(* Program constants.                                                      *)

\* const maxPort = 65535
maxPort == 65535
\* let debugPortOffset = 1 (initial value)
InitialDebugPortOffset == 1
\* let processUniqueId = 0 (initial value)
InitialProcessUniqueId == 0
\* largest int32, 2^31 - 1; the modulus 2147483648 of hash() is MaxInt32 + 1
MaxInt32 == 2147483647

\* the entry a JS array yields for a missing element: workers.shift() on an
\* empty list and workers[NaN] both give undefined
Undefined == 0

----------------------------------------------------------------------------
(* JS number semantics used by hash().  TLC integers are 32-bit, so sums    *)
(* that leave the int32 range are computed by cases and never formed.       *)

MinInt32 == (-MaxInt32) - 1

\* JS: (a + b) % 2147483648 for a, b in the int32 range.  The JS remainder
\* takes the sign of the dividend (truncation), so a negative sum stays
\* negative.
AddRem31(a, b) ==
    IF a >= 0 /\ b >= 0
    THEN IF a > MaxInt32 - b THEN (a - (MaxInt32 - b)) - 1 ELSE a + b
    ELSE IF a < 0 /\ b < 0
    THEN IF a >= (-MaxInt32) - b
         THEN a + b
         ELSE IF a = MinInt32 /\ b = MinInt32 THEN 0
              ELSE (a + (b + MaxInt32)) + 1
    ELSE IF a + b = MinInt32 THEN 0 ELSE a + b

\* JS: x << k for an int32 x and 0 < k < 32: the low 32-k bits move up and
\* the result is read as a signed int32.
ShiftLeft(x, k) ==
    LET low == x % (2 ^ (32 - k))
    IN  IF low >= 2 ^ (31 - k)
        THEN (low - 2 ^ (32 - k)) * (2 ^ k)
        ELSE low * (2 ^ k)

\* x >>> k: the logical right shift, zeros filling the high bits
ShiftRightLogical(x, k) ==
    IF x >= 0
    THEN x \div (2 ^ k)
    ELSE (((x + MaxInt32) + 1) \div (2 ^ k)) + (2 ^ (31 - k))

\* JS: x >> k, the sign-propagating (arithmetic) right shift of an int32.
ShiftRight(x, k) == x \div (2 ^ k)

\* XOR of two non-negative integers, bit by bit.
RECURSIVE XorNat(_, _)
XorNat(a, b) ==
    IF a = 0 THEN b
    ELSE IF b = 0 THEN a
    ELSE (((a % 2) + (b % 2)) % 2) + (2 * XorNat(a \div 2, b \div 2))

\* JS: a ^ b on int32 values (two's complement; ~x = -x - 1).
Xor32(a, b) ==
    IF a >= 0 /\ b >= 0 THEN XorNat(a, b)
    ELSE IF a < 0 /\ b < 0 THEN XorNat((-a) - 1, (-b) - 1)
    ELSE IF a < 0 THEN (-XorNat((-a) - 1, b)) - 1
    ELSE (-XorNat(a, (-b) - 1)) - 1

\* One round of the loop of hash(): lines 312-318.
hashByte(h, num) ==
    LET h1 == AddRem31(h, num)
        h2 == AddRem31(h1, ShiftLeft(h1, 10))
    IN  Xor32(h2, ShiftRight(h2, 6))

RECURSIVE hashLoop(_, _, _)
hashLoop(h, ip, i) ==
    IF i > Len(ip) THEN h ELSE hashLoop(hashByte(h, ip[i]), ip, i + 1)

\* hash() up to its return statement: the int32 value of the local `hash`
\* after line 325.
hashMix(seedv, ip) ==
    LET h0 == hashLoop(seedv, ip, 1)
        h1 == AddRem31(h0, ShiftLeft(h0, 3))
        h2 == Xor32(h1, ShiftRight(h1, 11))
    IN  AddRem31(h2, ShiftLeft(h2, 15))

\* JS: x >>> 0, the unsigned 32-bit reading of an int32.  The value does not
\* fit a TLC integer, so it is kept as two 16-bit halves: hi * 65536 + lo.
ToUint32(x) ==
    LET hi == x \div 65536
    IN  [hi |-> IF hi < 0 THEN hi + 65536 ELSE hi, lo |-> x % 65536]

\* AwesomeCluster.hash(ip) with this.seed = seedv.
hash(seedv, ip) == ToUint32(hashMix(seedv, ip))

\* JS: u % m for a uint32 u and a list length m >= 1.
Uint32Mod(u, m) == (((u.hi % m) * (65536 % m)) + u.lo) % m


----------------------------------------------------------------------------
(* Inputs the model draws from.                                            *)

\* socket.remoteAddress as the bytes Buffer.from() yields; <<>> is a missing
\* or empty address
Localhost == <<49, 50, 55, 46, 48, 46, 48, 46, 49>>      \* "127.0.0.1"
Addr8 == <<49, 48, 46, 48, 46, 48, 46, 56>>              \* "10.0.0.8"
Addrs == {<<>>, Addr8}

\* values of (Math.random() * 0xffffffff) | 0: any int32, negative included
Seeds == {7, -5}

\* values of options.cluster.workers; 0 stands for a missing option
WorkerOptions == 0 .. MaxWorkers

\* process.debugPort of the master (9229 is node's default)
DebugPorts == {9229, maxPort - 2, maxPort - 1, maxPort}

\* process.execArgv of the master: each argument is its flag and its value.
\* A flag is the sequence of its parts, cut before every single hyphen, so
\* that a test for a substring of the argument is a test for a run of parts.
Arg(f, v) == [flag |-> f, val |-> v]
Inspect == <<"--inspect">>                            \* --inspect
InspectBrk == <<"--inspect", "-brk">>                 \* --inspect-brk
InspectBrkNode == <<"--inspect", "-brk", "-node">>    \* --inspect-brk-node
InspectPublishUid == <<"--inspect", "-publish", "-uid">>
DebugPort == <<"--debug", "-port">>                   \* --debug-port
OtherArg == Arg(<<"--max", "-old", "-space", "-size">>, 512)
InspectArgLists(port) ==
    { <<Arg(InspectBrk, port)>>,
      <<OtherArg, Arg(Inspect, port)>>,
      <<Arg(InspectBrk, port), Arg(InspectBrk, port), OtherArg>>,
      <<Arg(InspectPublishUid, port)>>,
      <<Arg(InspectBrkNode, port), OtherArg>> }

----------------------------------------------------------------------------
VARIABLES
    needRespawn,            \* this.needRespawn
    isPermanentConnection,  \* this.transport.isPermanentConnection
    seed,                   \* this.seed
    workerCount,            \* this.workerCount
    execArgv,               \* process.execArgv of the master
    debugPort,              \* process.debugPort of the master
    phase,                  \* "constructed" until 'listening' fires
    workers,                \* this.workers: the routing list, of handles
    pushing,                \* the children forked by a spawnWorker that is
                            \* suspended at its await, in fork order
    spawning,               \* turns of the spawn loop of the 'listening'
                            \* callback that are still to run
    reading,                \* the worker whose 'message' events are being
                            \* emitted, while pushes are due
    children,               \* every ChildProcess forked, in fork order;
                            \* a handle is an index into this sequence
    processUniqueId,        \* module variable processUniqueId
    debugPortOffset,        \* module variable debugPortOffset
    closesSent,             \* close messages sent so far (bounds the run)
    nConns,                 \* connections accepted since the routing list
                            \* last changed (bounds the run between changes)
    socket,                 \* the socket last given to balance()
    base,                   \* routing list after the last spawn or respawn
    picks,                  \* the workers the round robin chose since then,
                            \* in order
    stickyPicks,            \* <<address, worker>> of every sticky choice
                            \* since then
    proc,                   \* one process that runs start(): its cluster
                            \* object, environment and transport server
    hashed                  \* one call of hash(): this.seed, the argument
                            \* and the value returned

config == <<needRespawn, isPermanentConnection, seed, workerCount, execArgv,
            debugPort>>
master == <<workers, pushing, spawning, reading, children, processUniqueId,
            debugPortOffset>>
history == <<socket, base, picks, stickyPicks>>
aside == <<proc, hashed>>
vars == <<config, phase, master, closesSent, nConns, history, aside>>

Handles == 1 .. Len(children)

\* the entries of a list, as a set
Range(list) == {list[i] : i \in 1 .. Len(list)}

----------------------------------------------------------------------------
(* The constructor.                                                        *)

\* options.cluster.workers || os.cpus().length
WorkerCountOf(option) == IF option = 0 THEN CpuCount ELSE option

NoSocket == [worker |-> Undefined, sentTo |-> <<>>, logged |-> 0,
             closeEmitted |-> 0, ended |-> 0, reading |-> FALSE]

\* a message without a socket, as before any message
NoMsg == [body |-> "", socket |-> Undefined]

\* the process of this module at its entry, the cluster object constructed
\* (lines 74-90): forked tells whether a master forked it, in which case it
\* inherited CLUSTER_MASTER_PID in its environment (line 278) and has an IPC
\* channel; port is transport.port; hasListen tells whether
\* transport.server.listen is a function; tasks are the continuations
\* that are due, in the order they were queued; reading tells whether the
\* messages of a channel read are being emitted
Process(isClusterMode, forked, port, hasListen) ==
    [isClusterMode |-> isClusterMode,
     forked |-> forked,
     port |-> port,
     hasListen |-> hasListen,
     pid |-> IF forked THEN "worker" ELSE "master",
     CLUSTER_MASTER_PID |-> IF forked THEN <<"master">> ELSE <<>>,
     _isMaster |-> IF isClusterMode THEN <<TRUE>> ELSE <<>>,
     _isWorker |-> IF isClusterMode THEN <<FALSE>> ELSE <<>>,
     returned |-> <<>>,
     pc |-> "constructed",
     starts |-> 0,
     threw |-> FALSE,
     tasks |-> <<>>,
     reading |-> FALSE,
     logged |-> 0,
     exitCode |-> <<>>,
     closeWraps |-> 0,
     closeCalls |-> 0,
     sent |-> 0,
     handlers |-> 0,
     listenFaked |-> FALSE,
     transportBound |-> FALSE,
     clusterListening |-> FALSE,
     _connections |-> 0,
     served |-> {},
     emitted |-> <<>>,
     received |-> 0,
     lastMsg |-> NoMsg]

\* no call of hash() under way
NoHash == [seed |-> 0, ip |-> <<>>, out |-> <<>>]

\* the process left aside while the master's event loop is explored
NoProcess == [Process(TRUE, FALSE, 3000, TRUE) EXCEPT !.pc = "aside"]

InitState ==
    /\ phase = "constructed"
    /\ workers = <<>>
    /\ pushing = <<>>
    /\ spawning = 0
    /\ reading = Undefined
    /\ children = <<>>
    /\ processUniqueId = InitialProcessUniqueId
    /\ debugPortOffset = InitialDebugPortOffset
    /\ closesSent = 0
    /\ nConns = 0
    /\ socket = NoSocket
    /\ base = <<>>
    /\ picks = <<>>
    /\ stickyPicks = {}

\* a master of either policy, started without a debugger flag
Init ==
    /\ needRespawn \in BOOLEAN
    /\ isPermanentConnection \in BOOLEAN
    /\ seed \in {-5}
    /\ workerCount \in {WorkerCountOf(o) : o \in WorkerOptions}
    /\ execArgv = <<>>
    /\ debugPort = 9229
    /\ InitState
    /\ proc = NoProcess
    /\ hashed = NoHash

\* a master of the sticky policy, over every seed of the model
InitSticky ==
    /\ needRespawn \in BOOLEAN
    /\ isPermanentConnection = TRUE
    /\ seed \in Seeds
    /\ workerCount \in {WorkerCountOf(o) : o \in WorkerOptions}
    /\ execArgv = <<>>
    /\ debugPort = 9229
    /\ InitState
    /\ proc = NoProcess
    /\ hashed = NoHash

\* a master of either policy whose options.cluster.workers may be negative:
\* the loop of the 'listening' callback then spawns nothing
InitAnyCount ==
    /\ needRespawn \in BOOLEAN
    /\ isPermanentConnection \in BOOLEAN
    /\ seed \in {-5}
    /\ workerCount \in {WorkerCountOf(o) : o \in (-1) .. MaxWorkers}
    /\ execArgv = <<>>
    /\ debugPort = 9229
    /\ InitState
    /\ proc = NoProcess
    /\ hashed = NoHash

\* a master started with a debugger flag, over every debug port of the model
InitDebug ==
    /\ needRespawn \in BOOLEAN
    /\ isPermanentConnection = FALSE
    /\ seed \in {-5}
    /\ workerCount = MaxWorkers
    /\ debugPort \in DebugPorts
    /\ execArgv \in InspectArgLists(debugPort)
    /\ InitState
    /\ proc = NoProcess
    /\ hashed = NoHash

----------------------------------------------------------------------------
(* fork(): lines 277-302.                                                  *)

\* a run of parts occurs somewhere in a flag: what includes() and a regular
\* expression without anchors test
contains(flag, run) ==
    \E i \in 0 .. (Len(flag) - Len(run)) :
        SubSeq(flag, i + 1, i + Len(run)) = run

\* arg.match(/--inspect(?:-brk|-port)?|--debug-port/): the expression is
\* not anchored and its optional group adds nothing to what it matches
matchesInspect(arg) ==
    contains(arg.flag, Inspect) \/ contains(arg.flag, DebugPort)

\* arg.includes('--inspect-brk')
includesInspectBrk(arg) == contains(arg.flag, InspectBrk)

\* argv.splice(i, 1), with i counted from 1
splice(list, i) == SubSeq(list, 1, i - 1) \o SubSeq(list, i + 1, Len(list))

\* the loop of lines 290-294: after a splice the index still advances, so
\* the argument that moved into place i is not looked at
RECURSIVE removeInspectBrk(_, _)
removeInspectBrk(argv, i) ==
    IF i > Len(argv) THEN argv
    ELSE IF includesInspectBrk(argv[i])
         THEN removeInspectBrk(splice(argv, i), i + 1)
         ELSE removeInspectBrk(argv, i + 1)

\* lines 287-288
inspectPortOf(port, offset) ==
    LET inspectPort == port + offset
    IN  IF inspectPort > maxPort THEN inspectPort - 1 ELSE inspectPort

\* a counter that is read but never advanced
sameUniqueId(id) == id

\* ++processUniqueId, line 284
nextUniqueId(id) == id + 1

\* The master's mutable state as one value, so that handlers compose.
Master == [workers |-> workers, pushing |-> pushing, children |-> children,
           processUniqueId |-> processUniqueId,
           debugPortOffset |-> debugPortOffset]

\* fork(env): the new ChildProcess is appended to the children; its handle
\* is its index.
fork(m) ==
    LET debugging == \E i \in 1 .. Len(execArgv) : matchesInspect(execArgv[i])
        inspectPort == inspectPortOf(debugPort, m.debugPortOffset)
        uid == nextUniqueId(m.processUniqueId)
        child == [NODE_UNIQUE_ID |-> uid,
                  execArgv |-> IF debugging
                               THEN Append(removeInspectBrk(execArgv, 1),
                                           Arg(InspectBrk, inspectPort))
                               ELSE execArgv,
                  inspectPort |-> IF debugging THEN inspectPort ELSE 0,
                  status |-> "running",
                  connected |-> TRUE,
                  pending |-> 0]
    IN  [m EXCEPT !.children = Append(@, child),
                  !.processUniqueId = uid,
                  !.debugPortOffset = IF debugging THEN @ + 1 ELSE @]

\* spawnWorker() up to its await, line 235: the child is forked and its
\* push is due
spawnWorkerAwait(m) ==
    LET f == fork(m)
    IN  [f EXCEPT !.pushing = Append(@, Len(f.children))]

\* spawnWorker() after its await, lines 237-260, for the child forked
\* first.  The handlers it registers are the actions OnExit, OnMessage
\* below.
spawnWorkerResume(m) ==
    [m EXCEPT !.workers = Append(@, Head(m.pushing)), !.pushing = Tail(@)]

\* this.workers.indexOf(worker), counted from 1; 0 when absent
indexOf(list, x) ==
    IF x \in Range(list)
    THEN CHOOSE i \in 1 .. Len(list) :
            list[i] = x /\ \A j \in 1 .. (i - 1) : list[j] # x
    ELSE 0

\* a respawn that spawns without taking the old handle out of the list
respawnAwaitKeeping(m, worker) == spawnWorkerAwait(m)

\* a respawn that takes the head of the list out, whoever it is
respawnAwaitDroppingHead(m, worker) ==
    spawnWorkerAwait([m EXCEPT !.workers = IF @ = <<>> THEN @ ELSE Tail(@)])

\* respawn(worker), lines 267-271, up to the await inside its spawnWorker
respawnAwait(m, worker) ==
    LET index == indexOf(m.workers, worker)
        removed == IF index # 0 THEN splice(m.workers, index) ELSE m.workers
    IN  spawnWorkerAwait([m EXCEPT !.workers = removed])

\* the master's variables after a handler left the state m
SetMaster(m) ==
    /\ workers' = m.workers
    /\ pushing' = m.pushing
    /\ children' = m.children
    /\ processUniqueId' = m.processUniqueId
    /\ debugPortOffset' = m.debugPortOffset

\* a respawn or spawn changed the routing list: the history starts again
Restart(m) ==
    /\ base' = m.workers
    /\ picks' = <<>>
    /\ stickyPicks' = {}
    /\ nConns' = 0


----------------------------------------------------------------------------
(* balance(socket): lines 338-367.                                         *)

\* socket.remoteAddress || '127.0.0.1'
addrOf(remoteAddress) ==
    IF remoteAddress = <<>> THEN Localhost ELSE remoteAddress

\* this.hash(addr) for every seed and address of the model, computed once
hashTable ==
    [s \in Seeds |-> [a \in {addrOf(r) : r \in Addrs} |-> hash(s, a)]]

\* a sticky choice that ignores the address and takes the head of the list
stickyWorkerHead(list, addr) ==
    IF list = <<>> THEN Undefined ELSE list[1]

\* sticky: this.workers[hash % this.workers.length]; an empty list gives
\* workers[NaN], which is undefined
stickyWorker(list, addr) ==
    IF list = <<>> THEN Undefined
    ELSE list[Uint32Mod(hashTable[seed][addr], Len(list)) + 1]

\* round robin: this.workers.shift(); undefined on an empty list
shift(list) == IF list = <<>> THEN Undefined ELSE Head(list)

\* a round robin that puts the worker back where it was taken from
\* (unshift instead of push)
rotatedToFront(list) == list

\* the routing list once the worker is found: untouched by the sticky
\* branch, shift() then push(worker) in the round-robin branch
rotated(list) ==
    Append(IF list = <<>> THEN <<>> ELSE Tail(list), shift(list))

selectWorker(list, addr) ==
    IF isPermanentConnection THEN stickyWorker(list, addr) ELSE shift(list)

\* a round robin that forgets to push the worker it shifted
listAfterSelectDropped(list) ==
    IF isPermanentConnection \/ list = <<>> THEN list ELSE Tail(list)

listAfterSelect(list) ==
    IF isPermanentConnection THEN list ELSE rotated(list)

\* a server that starts reading each socket as it accepts it
flowingOnConnect == FALSE

\* the option the master's net.Server is set up with: line 184
pauseOnConnect == TRUE

\* the socket net.Server hands to balance: it is read by the accepting
\* process from the start unless the server pauses on connect
accepted == [reading |-> ~pauseOnConnect]

\* the try block, lines 355-361: reading worker.connected of undefined
\* throws a TypeError, a disconnected worker throws the Error of line 360,
\* and worker.send() may throw on its own
sendSucceeds(kids, worker, sendThrows) ==
    /\ worker # Undefined
    /\ kids[worker].connected
    /\ ~sendThrows

\* a catch block that offers the socket to any other connected worker
handoffRetry(kids, worker, sendThrows) ==
    IF sendSucceeds(kids, worker, sendThrows)
    THEN [worker |-> worker, sentTo |-> <<worker>>, logged |-> 0,
          closeEmitted |-> 0, ended |-> 0,
          reading |-> accepted.reading]
    ELSE IF \E v \in 1 .. Len(kids) : v # worker /\ kids[v].connected
         THEN [worker |-> worker,
               sentTo |-> <<CHOOSE v \in 1 .. Len(kids) :
                               v # worker /\ kids[v].connected>>,
               logged |-> 1, closeEmitted |-> 0, ended |-> 0,
               reading |-> accepted.reading]
         ELSE [worker |-> worker, sentTo |-> <<>>, logged |-> 1,
               closeEmitted |-> 1, ended |-> 1,
               reading |-> accepted.reading]

\* the socket after the try/catch of lines 355-366
handoff(kids, worker, sendThrows) ==
    IF sendSucceeds(kids, worker, sendThrows)
    THEN [worker |-> worker, sentTo |-> <<worker>>, logged |-> 0,
          closeEmitted |-> 0, ended |-> 0,
          reading |-> accepted.reading]
    ELSE [worker |-> worker, sentTo |-> <<>>, logged |-> 1,
          closeEmitted |-> 1, ended |-> 1,
          reading |-> accepted.reading]

----------------------------------------------------------------------------
(* The events of the master's event loop and of the workers.               *)

RECURSIVE pendingFrom(_, _)
pendingFrom(kids, i) ==
    IF i > Len(kids) THEN 0 ELSE kids[i].pending + pendingFrom(kids, i + 1)

\* exit events and close messages not yet handled
Outstanding ==
    Cardinality({w \in Handles : children[w].status = "dead"})
        + pendingFrom(children, 1)

\* every exit and every close costs a fork when respawn is on: a worker may
\* cause one only while the run's fork budget covers all that are due
ForkBudget == needRespawn => Len(children) + Outstanding < MaxForks

\* no continuation of the supervisor is due: every spawnWorker has pushed
\* and the spawn loop is over.  The events the event loop delivers from
\* I/O callbacks are handled in such states only.
Idle == pushing = <<>> /\ spawning = 0

\* 'listening': lines 196-202, up to the first await.  The first turn of
\* the loop, if there is one, forks a child.
Listening ==
    /\ phase = "constructed"
    /\ phase' = "listening"
    /\ LET m == IF workerCount > 0 THEN spawnWorkerAwait(Master) ELSE Master
       IN  /\ SetMaster(m)
           /\ Restart(m)
    /\ spawning' = IF workerCount > 0 THEN workerCount - 1 ELSE 0
    /\ UNCHANGED <<config, aside, reading, closesSent, socket>>

\* 'connection': the listener hands an accepted socket to balance()
Connection(remoteAddress, sendThrows) ==
    /\ phase = "listening"
    /\ Idle
    /\ nConns < MaxConns
    /\ nConns' = nConns + 1
    /\ LET addr == addrOf(remoteAddress)
           worker == selectWorker(workers, addr)
       IN  /\ workers' = listAfterSelect(workers)
           /\ socket' = handoff(children, worker, sendThrows)
           /\ picks' = IF isPermanentConnection
                       THEN picks
                       ELSE Append(picks, worker)
           /\ stickyPicks' = IF isPermanentConnection
                             THEN stickyPicks \cup {<<remoteAddress, worker>>}
                             ELSE stickyPicks
    /\ UNCHANGED <<config, aside, phase, pushing, spawning, reading, children,
                   processUniqueId, debugPortOffset, closesSent, base>>

\* a worker process ends (crash, kill, process.exit); its 'exit' event is due
WorkerDies(w) ==
    /\ children[w].status = "running"
    /\ ForkBudget
    /\ children' = [children EXCEPT ![w].status = "dead"]
    /\ UNCHANGED <<config, aside, phase, workers, pushing, spawning, reading,
                   processUniqueId, debugPortOffset, closesSent, nConns,
                   history>>

\* a worker's IPC channel closes (process.disconnect(), or the channel of a
\* process that ended): worker.connected turns false and what the channel
\* still held is lost.  The channel of a worker that ended always closes;
\* MaxDisconnects bounds the workers that run on without a channel.
IpcDisconnect(w) ==
    /\ children[w].connected
    /\ \/ children[w].status # "running"
       \/ Cardinality({v \in Handles : /\ children[v].status = "running"
                                       /\ ~children[v].connected})
              < MaxDisconnects
    /\ Idle
    /\ children' = [children EXCEPT ![w].connected = FALSE, ![w].pending = 0]
    /\ UNCHANGED <<config, aside, phase, workers, pushing, spawning, reading,
                   processUniqueId, debugPortOffset, closesSent, nConns,
                   history>>

\* the worker's server.close wrapper, lines 154-158: process.send({type: 'close'})
WorkerClose(w) ==
    /\ children[w].status = "running"
    /\ children[w].connected
    /\ closesSent < MaxClose
    /\ ForkBudget
    /\ closesSent' = closesSent + 1
    /\ children' = [children EXCEPT ![w].pending = @ + 1]
    /\ UNCHANGED <<config, aside, phase, workers, pushing, spawning, reading,
                   processUniqueId, debugPortOffset, nConns, history>>

\* what the exit handler and the message handler do, as far as it runs
\* before the await of spawnWorker: if (self.needRespawn) await
\* self.respawn(worker)
respawnAwaitIfNeeded(m, worker) ==
    IF needRespawn THEN respawnAwait(m, worker) ELSE m

Handled(m) ==
    /\ SetMaster(m)
    /\ IF m.workers # workers
       THEN Restart(m)
       ELSE UNCHANGED <<base, picks, stickyPicks, nConns>>
    /\ UNCHANGED <<config, aside, phase, closesSent, socket>>

\* worker.on('exit'): lines 238-244, up to the await of spawnWorker.  The
\* channel of a process that ended reaches its end before the child is
\* reaped, so worker.connected is false when 'exit' is emitted.
OnExit(w) ==
    /\ children[w].status = "dead"
    /\ ~children[w].connected
    /\ Idle
    /\ Handled(respawnAwaitIfNeeded(
                   [Master EXCEPT !.children[w].status = "exited"], w))
    /\ UNCHANGED <<spawning, reading>>

\* worker.on('message') with msg.type === 'close': lines 246-253, up to the
\* await of spawnWorker.  While pushes are due, only a further message of
\* the read that is being emitted is handled.
OnMessage(w) ==
    /\ children[w].pending > 0
    /\ Idle \/ reading = w
    /\ Handled(respawnAwaitIfNeeded(
                   [Master EXCEPT !.children[w].pending = @ - 1], w))
    /\ reading' = IF needRespawn THEN w ELSE reading
    /\ UNCHANGED spawning

\* the microtask of a suspended spawnWorker: lines 237-260.  Once the first
\* one runs, the ticks of the read are over.
Resume ==
    /\ pushing # <<>>
    /\ Handled(spawnWorkerResume(Master))
    /\ reading' = Undefined
    /\ UNCHANGED spawning

\* the next turn of the spawn loop, lines 199-201, once the spawnWorker of
\* the turn before has pushed: up to the await of its own spawnWorker
SpawnNext ==
    /\ spawning > 0
    /\ pushing = <<>>
    /\ Handled(spawnWorkerAwait(Master))
    /\ spawning' = spawning - 1
    /\ UNCHANGED reading

Next ==
    \/ Listening
    \/ SpawnNext
    \/ \E a \in Addrs, t \in BOOLEAN : Connection(a, t)
    \/ \E w \in Handles : WorkerDies(w)
    \/ \E w \in Handles : IpcDisconnect(w)
    \/ \E w \in Handles : WorkerClose(w)
    \/ \E w \in Handles : OnExit(w)
    \/ \E w \in Handles : OnMessage(w)
    \/ Resume

Spec == Init /\ [][Next]_vars

SpecSticky == InitSticky /\ [][Next]_vars

SpecDebug == InitDebug /\ [][Next]_vars

SpecAnyCount == InitAnyCount /\ [][Next]_vars

----------------------------------------------------------------------------
(* One process running start(): role detection, the transport's listen,    *)
(* the worker's message handler.                                           *)

\* get isMaster(): lines 209-221.  The value returned is appended to
\* p.returned.
isMaster(p) ==
    LET isWorker == p.CLUSTER_MASTER_PID # <<>>
    IN  [p EXCEPT !._isWorker = <<isWorker>>,
                  !._isMaster = <<~isWorker>>,
                  !.CLUSTER_MASTER_PID = IF ~isWorker THEN <<p.pid>> ELSE @,
                  !.returned = Append(@, ~isWorker)]

\* the ports net.Server.listen takes; any other number makes it throw
\* ERR_SOCKET_BAD_PORT
isLegalPort(port) == port >= 0 /\ port < 65536

\* startCluster() as far as this process is concerned (the routing list
\* and the seed it resets are InitState): line 183 sets the cluster's own
\* net.Server up anew, which forgets a handle that listens, and line 191
\* listens on the port.  listen throws on a port out of range; on a port
\* this process holds already the bind fails and an 'error' event that
\* nothing handles is due.
startCluster(p) ==
    LET q == [p EXCEPT !.clusterListening = FALSE]
    IN  IF ~isLegalPort(p.port)
        THEN [q EXCEPT !.threw = TRUE]
        ELSE IF p.clusterListening
        THEN [q EXCEPT !.tasks = Append(@, "listenError")]
        ELSE [q EXCEPT !.clusterListening = TRUE]

\* startWorker(): lines 140-169.  Each call in cluster mode wraps
\* server.close once more and adds one 'message' listener.
startWorker(p) ==
    IF ~p.isClusterMode
    THEN p
    ELSE [p EXCEPT !.closeWraps = @ + 1, !.handlers = @ + 1]

\* transport.start(): this.server.listen(this.port) (wsTransport.js lines
\* 21-23).  The replaced listen does nothing; the server's own listen binds
\* the port, and throws on a port out of range and on a server that listens
\* already; calling a listen that is no function throws.
transportStart(p) ==
    IF p.listenFaked
    THEN p
    ELSE IF ~p.hasListen \/ ~isLegalPort(p.port) \/ p.transportBound
    THEN [p EXCEPT !.threw = TRUE]
    ELSE [p EXCEPT !.transportBound = TRUE]

\* lines 129-130: await this.transport.start() inside try.  start() has
\* run; what follows the await, the catch or the end of the try, is due.
awaitTransportStart(p) ==
    LET q == transportStart(p)
    IN  IF q.threw
        THEN [q EXCEPT !.threw = FALSE, !.tasks = Append(@, "caught")]
        ELSE [q EXCEPT !.tasks = Append(@, "transportStarted")]

\* a startTransport that leaves server.listen as it is
startTransportUnpatched(p) == awaitTransportStart(p)

\* startTransport(): lines 119-135, up to the await of line 130
startTransport(p) ==
    awaitTransportStart(IF p.isClusterMode /\ p.hasListen
                        THEN [p EXCEPT !.listenFaked = TRUE]
                        ELSE p)

\* process.exit(1), and the end of a process on an exception or an 'error'
\* event that nothing handles: nothing that was due runs
exit1(p) == [p EXCEPT !.exitCode = <<1>>, !.pc = "exited", !.tasks = <<>>]

\* the catch of startTransport: lines 131-134
caught(p) == exit1([p EXCEPT !.logged = @ + 1])

\* startTransport after the await of line 130 when transport.start() has
\* fulfilled: the try ends and startTransport returns, lines 130-135.  Its
\* promise fulfils, and the start() that awaits it (line 102 or 106) is due.
transportStarted(p) == [p EXCEPT !.tasks = Append(@, "fulfilled")]

\* start(): lines 96-108, up to its first await.  startCluster has run
\* whole and start() is due after the await of line 99, to return or to
\* throw; or startWorker has run whole and start() is due after the await
\* of line 101 or 105, to call startTransport.
start(p) ==
    IF p.isClusterMode
    THEN LET q == isMaster(p)
         IN  IF q.returned[Len(q.returned)]
             THEN LET r == startCluster(q)
                  IN  IF r.threw
                      THEN [r EXCEPT !.threw = FALSE,
                                     !.tasks = Append(@, "rejected")]
                      ELSE [r EXCEPT !.tasks = Append(@, "fulfilled")]
             ELSE [startWorker(q) EXCEPT !.tasks = Append(@, "startTransport")]
    ELSE [startWorker(p) EXCEPT !.tasks = Append(@, "startTransport")]

\* the continuation that is due first runs, up to its next await.  Each
\* await gives way once: start() resumes after startWorker and calls
\* startTransport (lines 102, 106), startTransport resumes after
\* transport.start() (line 130), and start() resumes after startTransport
\* or startCluster and returns or throws (lines 99, 102, 106), which settles
\* the promise of start().  The ticks of a channel read are over once a
\* continuation runs.
continue(p) ==
    LET task == Head(p.tasks)
        q == [p EXCEPT !.tasks = Tail(@), !.reading = FALSE]
    IN  CASE task = "startTransport" -> startTransport(q)
          [] task = "transportStarted" -> transportStarted(q)
          [] task = "caught" -> caught(q)
          [] task = "listenError" -> exit1(q)
          [] task = "rejected" -> [q EXCEPT !.pc = "rejected"]
          [] task = "fulfilled" -> [q EXCEPT !.pc = "started"]

\* transport.server.close().  Once startWorker has wrapped it, lines
\* 154-158, every wrapper sends {type: 'close'} and then calls the close it
\* wrapped; in a process without IPC channel process.send is undefined and
\* the outermost wrapper throws.  The server's own close ends its listening.
serverClose(p) ==
    IF p.closeWraps = 0 THEN [p EXCEPT !.transportBound = FALSE]
    ELSE IF ~p.forked THEN [p EXCEPT !.threw = TRUE]
    ELSE [p EXCEPT !.sent = @ + p.closeWraps, !.transportBound = FALSE]

\* a handler that takes every message with a socket for a connection
onMessageAnyBody(p, msg) ==
    IF msg.socket = Undefined
    THEN p
    ELSE [p EXCEPT !._connections = @ + 1,
                   !.served = @ \cup {msg.socket},
                   !.emitted = Append(@, msg.socket)]

\* the worker's 'message' handler: lines 160-168
onMessage(p, msg) ==
    IF msg.body # "balancing" \/ msg.socket = Undefined
    THEN p
    ELSE [p EXCEPT !._connections = @ + 1,
                   !.served = @ \cup {msg.socket},
                   !.emitted = Append(@, msg.socket)]

\* process.emit('message', msg, socket): the n listeners that startWorker
\* added run one after the other
RECURSIVE emitMessage(_, _, _)
emitMessage(p, msg, n) ==
    IF n = 0 THEN p ELSE emitMessage(onMessage(p, msg), msg, n - 1)

deliver(p, msg) == emitMessage(p, msg, p.handlers)

\* the message bodies a process is sent: the balancer's string and others
Bodies == {"balancing", "shutdown"}

\* values of transport.port: the default of wsTransport.js and a number
\* that is no port
Ports == {3000, 70000}

\* the process states at entry: a master, a worker forked by a master, and
\* an application that runs without options.cluster
ProcessesAtEntry ==
    {Process(c[1], c[2], port, hasListen) :
        c \in {<<TRUE, FALSE>>, <<TRUE, TRUE>>, <<FALSE, FALSE>>},
        port \in Ports, hasListen \in BOOLEAN}

InitProcess ==
    /\ needRespawn = TRUE
    /\ isPermanentConnection = FALSE
    /\ seed = -5
    /\ workerCount = CpuCount
    /\ execArgv = <<>>
    /\ debugPort = 9229
    /\ proc \in ProcessesAtEntry
    /\ hashed = NoHash
    /\ InitState

\* the process runs until process.exit
alive == proc.pc \in {"constructed", "started", "rejected"}

\* the application calls start(), for the first time or again, awaiting
\* the call before or not
Start ==
    /\ alive
    /\ proc.starts < MaxStarts
    /\ proc' = start([proc EXCEPT !.starts = @ + 1])
    /\ UNCHANGED <<config, phase, master, closesSent, nConns, history, hashed>>

\* a microtask: the continuation that is due first.  The continuations of
\* several start() calls run in the order in which they became due.
Continue ==
    /\ alive
    /\ proc.tasks # <<>>
    /\ proc' = continue(proc)
    /\ UNCHANGED <<config, phase, master, closesSent, nConns, history, hashed>>

\* the application reads the isMaster property, before or after start()
ReadIsMaster ==
    /\ alive
    /\ Len(proc.returned) < MaxReads
    /\ proc' = isMaster(proc)
    /\ UNCHANGED <<config, phase, master, closesSent, nConns, history, hashed>>

\* the application calls transport.server.close(); what the wrapper throws
\* goes to the caller
ServerClose ==
    /\ alive
    /\ proc.closeCalls < MaxClose
    /\ proc' = [serverClose(proc) EXCEPT !.threw = FALSE,
                                          !.closeCalls = @ + 1]
    /\ UNCHANGED <<config, phase, master, closesSent, nConns, history, hashed>>

\* the master sends this process a message over the IPC channel; a socket
\* that comes with it is named by the number of the message.  The messages
\* of one channel read are emitted in ticks, one after the other and before
\* any continuation that became due meanwhile (a start() called by a
\* listener of the application, say); a later read is emitted once no
\* continuation is due.
Message(body, withSocket) ==
    /\ alive
    /\ proc.tasks = <<>> \/ proc.reading
    /\ proc.forked
    /\ proc.received < MaxMsgs
    /\ LET msg == [body |-> body,
                   socket |-> IF withSocket
                              THEN proc.received + 1
                              ELSE Undefined]
       IN  proc' = [deliver(proc, msg) EXCEPT !.received = @ + 1,
                                              !.lastMsg = msg,
                                              !.reading = TRUE]
    /\ UNCHANGED <<config, phase, master, closesSent, nConns, history, hashed>>

NextProcess ==
    \/ Start
    \/ Continue
    \/ ReadIsMaster
    \/ ServerClose
    \/ \E body \in Bodies, withSocket \in BOOLEAN : Message(body, withSocket)

SpecProcess == InitProcess /\ [][NextProcess]_vars

----------------------------------------------------------------------------
(* hash() on its own, over seeds and inputs of every sign and length.      *)

\* values of this.seed, line 190: the ends and the middle of the int32 range
HashSeeds == {0, 7, -5, -1, MaxInt32, MinInt32}

\* bytes of a Buffer: '.', '1' and the largest byte
HashBytes == {46, 49, 255}

InitHash ==
    /\ needRespawn = TRUE
    /\ isPermanentConnection = TRUE
    /\ seed = -5
    /\ workerCount = CpuCount
    /\ execArgv = <<>>
    /\ debugPort = 9229
    /\ proc = NoProcess
    /\ hashed \in {[seed |-> s, ip |-> a, out |-> <<>>] :
                      s \in HashSeeds, a \in {<<>>, Localhost}}
    /\ InitState

\* the input grows by one byte
Feed(b) ==
    /\ hashed.out = <<>>
    /\ Len(hashed.ip) < MaxHashLen
    /\ hashed' = [hashed EXCEPT !.ip = Append(@, b)]
    /\ UNCHANGED <<config, phase, master, closesSent, nConns, history, proc>>

\* this.hash(ip) is called and returns; balance() passes no empty buffer
\* (line 339)
Hash ==
    /\ hashed.out = <<>>
    /\ hashed.ip # <<>>
    /\ hashed' = [hashed EXCEPT !.out = <<hash(hashed.seed, hashed.ip)>>]
    /\ UNCHANGED <<config, phase, master, closesSent, nConns, history, proc>>

NextHash ==
    \/ \E b \in HashBytes : Feed(b)
    \/ Hash

SpecHash == InitHash /\ [][NextHash]_vars

----------------------------------------------------------------------------
(* The claims.                                                             *)

\* a step in which the listener handed a socket to balance()
Balanced == nConns' = nConns + 1

\* the list without every occurrence of w
Without(list, w) == SelectSeq(list, LAMBDA x : x # w)

\* C1: round-robin law.  With isPermanentConnection false, the i-th
\* connection since the routing list was last changed by a spawn or respawn
\* (i counted from 0) chooses worker w_{i mod M} of that list, and the socket
\* goes to no other worker; the first connection after startup chooses the
\* first-spawned worker.
RoundRobinLaw ==
    ~isPermanentConnection =>
        /\ \A i \in 1 .. Len(picks) :
              Len(base) > 0 => picks[i] = base[((i - 1) % Len(base)) + 1]
        /\ (picks # <<>> /\ Len(children) = workerCount) =>
              children[picks[1]].NODE_UNIQUE_ID = 1
        /\ picks # <<>> =>
              /\ socket.worker = picks[Len(picks)]
              /\ socket.sentTo \in {<<>>, <<socket.worker>>}

\* C1 witness: three connections over two workers [A, B] went to A, B and A
\* again (the index wrapped: 2 mod 2 = 0), and the third socket reached A.
RoundRobinWraps ==
    /\ ~isPermanentConnection
    /\ Len(base) = 2
    /\ base[1] # base[2]
    /\ Len(picks) = 3
    /\ picks[1] = base[1] /\ picks[2] = base[2] /\ picks[3] = base[1]
    /\ socket.sentTo = <<base[1]>>

\* C2: sticky law.  With isPermanentConnection true, every connection since
\* the routing list was last changed chose the worker at index
\* hash(addr) mod len(workers), an empty address counting as "127.0.0.1";
\* hence two connections with the same address chose the same worker.  The
\* sticky policy itself leaves the list as it was.
StickyLaw ==
    isPermanentConnection =>
        /\ workers = base
        /\ \A p \in stickyPicks :
              LET addr == IF p[1] = <<>> THEN Localhost ELSE p[1]
              IN  Len(base) > 0 =>
                     p[2] = base[Uint32Mod(hashTable[seed][addr], Len(base)) + 1]
        /\ \A p, q \in stickyPicks : p[1] = q[1] => p[2] = q[2]

\* C2 witness: two connections from one address over a list of two that
\* never changed both chose the second worker, the one its hash selects.
StickyRepeats ==
    /\ isPermanentConnection
    /\ ~needRespawn
    /\ Len(base) = 2
    /\ nConns = 2
    /\ stickyPicks = {<<Addr8, base[2]>>}
    /\ socket.sentTo = <<base[2]>>

\* C3: every worker in the routing list has its IPC channel connected.  (An
\* entry that is no worker at all, the undefined the round robin pushes on an
\* empty list, is not held against the claim.)
RoutingListConnected ==
    \A i \in 1 .. Len(workers) :
        workers[i] # Undefined => children[workers[i]].connected

\* the routing list once the pushes that are due have run
afterPushes(list, due) == list \o due

\* C4: with respawn on, the exit handler of a worker that is in the routing
\* list removes it and spawns one replacement: once the replacement is
\* pushed the list has the length it had, which is the configured worker
\* count, holds the survivors and the new worker, and no longer holds the
\* exited one.
RespawnOnExit ==
    [][\A w \in Handles :
          (needRespawn /\ w \in Range(workers) /\ OnExit(w)) =>
              LET after == afterPushes(workers', pushing')
              IN  /\ Len(after) = Len(workers)
                  /\ Len(after) = workerCount
                  /\ Len(children') = Len(children) + 1
                  /\ w \notin Range(after)
                  /\ Range(after) = (Range(workers) \ {w}) \cup {Len(children')}
                  /\ children'[Len(children')].status = "running"]_vars

\* C4 without the worker count: what the exit handler does hold.
RespawnOnExitKeepsLength ==
    [][\A w \in Handles :
          (needRespawn /\ w \in Range(workers) /\ OnExit(w)) =>
              LET after == afterPushes(workers', pushing')
              IN  /\ Len(after) = Len(workers)
                  /\ workers' = Without(workers, w)
                  /\ pushing' = <<Len(children')>>
                  /\ Len(children') = Len(children) + 1
                  /\ w \notin Range(after)
                  /\ Range(after) = (Range(workers) \ {w}) \cup {Len(children')}
                  /\ children'[Len(children')].status = "running"]_vars

\* C5: with respawn off, a worker whose exit has been handled is no longer
\* in the routing list.
ExitedWorkerPruned ==
    ~needRespawn =>
        \A w \in Handles :
            children[w].status = "exited" => w \notin Range(workers)

\* C6: the close-message handler.  With respawn on it takes the sender out
\* of the routing list and forks one worker, whose push on the list is then
\* due, and the push that follows appends that worker: the list the exit
\* handler would have left.  With respawn off it changes neither the
\* routing list nor the children forked.
CloseMessageLaw ==
    [][/\ \A w \in Handles :
             OnMessage(w) =>
                 IF needRespawn
                 THEN /\ Len(children') = Len(children) + 1
                      /\ children'[Len(children')].status = "running"
                      /\ w \notin Range(workers')
                      /\ workers' = Without(workers, w)
                      /\ pushing' = Append(pushing, Len(children'))
                      /\ LET onExit == respawnAwait(Master, w)
                         IN  /\ workers' = onExit.workers
                             /\ pushing' = onExit.pushing
                 ELSE /\ workers' = workers
                      /\ Len(children') = Len(children)
                      /\ pushing' = pushing
       /\ Resume =>
             /\ workers' = Append(workers, Head(pushing))
             /\ pushing' = Tail(pushing)
             /\ children' = children]_vars

\* C6 witness: a close was handled with respawn on: a live worker is out of
\* the routing list and its replacement is in.
ClosedWorkerReplaced ==
    /\ needRespawn
    /\ workerCount = 2
    /\ \E w \in Handles :
          /\ children[w].status = "running"
          /\ children[w].pending = 0
          /\ w \notin Range(workers)
          /\ workers = <<2, 3>>
          /\ pushing = <<>>
          /\ Len(children) = 3

\* C7: the NODE_UNIQUE_ID values are 1, 2, 3, ... in fork order: pairwise
\* distinct and strictly increasing, replacements included.
UniqueIdsIncrease ==
    /\ \A i \in Handles : children[i].NODE_UNIQUE_ID = i
    /\ \A i, j \in Handles :
          i < j => children[i].NODE_UNIQUE_ID < children[j].NODE_UNIQUE_ID
    /\ processUniqueId = Len(children)

\* C7 witness: a replacement was forked after an exit was handled.
ReplacementForked ==
    /\ needRespawn
    /\ Len(children) > workerCount
    /\ workerCount > 0
    /\ \E w \in Handles : children[w].status = "exited"
    /\ children[workerCount + 1].NODE_UNIQUE_ID = workerCount + 1

\* C8: under a debugger flag the debug ports of the children are pairwise
\* distinct and at most 65535.
DebugPortsDistinct ==
    (\E i \in 1 .. Len(execArgv) : matchesInspect(execArgv[i])) =>
        /\ \A i \in Handles : children[i].inspectPort <= maxPort
        /\ \A i, j \in Handles :
              i # j => children[i].inspectPort # children[j].inspectPort

\* C9: a socket goes to its chosen worker or to none.  It is sent only if
\* that worker is connected; if it is not sent the error is logged, close is
\* emitted on the socket and the socket is ended.
NoRetryOnFailure ==
    [][Balanced =>
          LET w == socket'.worker
          IN  /\ Len(socket'.sentTo) <= 1
              /\ socket'.sentTo # <<>> =>
                    /\ socket'.sentTo = <<w>>
                    /\ w # Undefined
                    /\ children[w].connected
                    /\ socket'.logged = 0
                    /\ socket'.closeEmitted = 0
                    /\ socket'.ended = 0
              /\ socket'.sentTo = <<>> =>
                    /\ socket'.logged = 1
                    /\ socket'.closeEmitted = 1
                    /\ socket'.ended = 1
              /\ (w = Undefined \/ ~children[w].connected) =>
                    socket'.sentTo = <<>>]_vars

\* C9 witness: a socket was dropped while another worker of the routing list
\* was connected and running.
DroppedDespiteLiveWorker ==
    /\ socket.ended = 1
    /\ socket.sentTo = <<>>
    /\ socket.worker # Undefined
    /\ \E v \in Range(workers) :
          /\ v # Undefined
          /\ v # socket.worker
          /\ children[v].connected
          /\ children[v].status = "running"

\* C10 as stated: a failed delivery leaves the routing list as it was.
ListUnchangedOnFailure ==
    [][(Balanced /\ socket'.ended = 1) => workers' = workers]_vars

\* C10 amended: a failed delivery over a non-empty routing list removes no
\* worker: the list keeps its handles and its length; the sticky policy
\* leaves it as it was, the round robin leaves it rotated by one, head moved
\* to the tail, as after a delivery.
ListKeptOnFailure ==
    [][(Balanced /\ socket'.ended = 1 /\ workers # <<>>) =>
          /\ Len(workers') = Len(workers)
          /\ Range(workers') = Range(workers)
          /\ workers' = IF isPermanentConnection
                        THEN workers
                        ELSE Append(Tail(workers), Head(workers))]_vars

\* C10 witness: the round robin chose a disconnected worker out of two; the
\* socket was dropped and the worker is now the tail of the list.
FailedWorkerRotated ==
    /\ ~isPermanentConnection
    /\ socket.ended = 1
    /\ Len(workers) = 2
    /\ socket.worker = workers[2]
    /\ socket.worker # Undefined
    /\ ~children[socket.worker].connected
    /\ picks # <<>>


\* C11 as stated: a worker leaves the routing list only once its exit event
\* has been handled.
RemovedOnlyAfterExit ==
    [][\A w \in Range(workers) :
          w \notin Range(workers') => children'[w].status = "exited"]_vars

\* C11 amended: an entry of the routing list is a forked child, and enters
\* the list in the push that follows its fork; a worker leaves the list
\* only when the master, with respawn on, handles its exit event or a
\* close message from it.
ListedFromSpawnToRespawn ==
    [][/\ \A w \in Range(workers') :
             /\ w \in 1 .. Len(children')
             /\ w \notin Range(workers) =>
                   /\ Resume
                   /\ w = Head(pushing)
                   /\ w \in 1 .. Len(children)
       /\ \A w \in Range(workers) :
             w \notin Range(workers') =>
                 needRespawn /\ (OnExit(w) \/ OnMessage(w))]_vars

\* C11 witness: one worker left the list on its close message while still
\* running, another on its exit.
LeftByCloseAndByExit ==
    /\ needRespawn
    /\ \E w, v \in Handles :
          /\ children[w].status = "running"
          /\ children[w].pending = 0
          /\ w \notin Range(workers)
          /\ children[v].status = "exited"
          /\ v \notin Range(workers)
          /\ v # w
    /\ Range(workers) \subseteq Handles

\* C12: under the sticky policy with respawn on, once an exited worker has
\* been replaced and the list has its old length, every address that was
\* routed to a worker that did not exit is still routed to that worker.
StickySurvivesRespawn ==
    [][\A w \in Handles :
          (isPermanentConnection /\ needRespawn /\ OnExit(w)
              /\ Len(afterPushes(workers', pushing')) = Len(workers)) =>
              \A p \in stickyPicks :
                  p[2] # w =>
                     stickyWorker(afterPushes(workers', pushing'),
                                  addrOf(p[1])) = p[2]]_vars

\* C16: under a debugger flag every child's argument list is the master's
\* without its --inspect-brk arguments, in order, followed by one
\* --inspect-brk=<newPort>; a master on port 9229 gives its first two
\* children 9230 and 9231.
ChildArgsRewritten ==
    \A c \in Handles :
        LET a == children[c].execArgv
            n == Len(a)
        IN  /\ n >= 1
            /\ a[n] = Arg(InspectBrk, children[c].inspectPort)
            /\ \A i \in 1 .. (n - 1) : a[i].flag # InspectBrk
            /\ SubSeq(a, 1, n - 1)
                  = SelectSeq(execArgv, LAMBDA x : x.flag # InspectBrk)
            /\ (debugPort = 9229 /\ c <= 2) =>
                  children[c].inspectPort = 9229 + c

\* C18: with respawn on, the routing list never holds more workers than
\* configured, whatever close messages and exits the master handled.
PoolNeverGrows ==
    needRespawn => Len(workers) <= workerCount

\* C20: a round-robin balance leaves the routing list with the same length
\* and the same handles, every one a forked child, for every list length.
RoundRobinPermutes ==
    [][(Balanced /\ ~isPermanentConnection) =>
          /\ Len(workers') = Len(workers)
          /\ Range(workers') = Range(workers)
          /\ Range(workers') \subseteq 1 .. Len(children')]_vars


\* C13: the master never reads an accepted socket: the socket balance was
\* given is not being read, and all the master did with it is either one
\* IPC send or, the send failing, emit close on it and end it.
MasterNeverReads ==
    [][Balanced =>
          /\ ~socket'.reading
          /\ \/ /\ Len(socket'.sentTo) = 1
                /\ socket'.closeEmitted = 0
                /\ socket'.ended = 0
             \/ /\ socket'.sentTo = <<>>
                /\ socket'.closeEmitted = 1
                /\ socket'.ended = 1]_vars

\* C13 witness: a second connection went to its worker, unread.
UnreadSocketSent ==
    /\ nConns >= 2
    /\ socket.sentTo = <<socket.worker>>
    /\ socket.ended = 0
    /\ ~socket.reading


\* C14: in a worker that has run start(), a message whose body is
\* "balancing" and that carries a socket adds one to server._connections,
\* sets the socket's server and emits one connection event with that
\* socket; any other message changes neither the counter nor the events.
MessageHandlerLaw ==
    [][(proc'.received = proc.received + 1 /\ proc.handlers >= 1) =>
          LET msg == proc'.lastMsg
          IN  IF msg.body = "balancing" /\ msg.socket # Undefined
              THEN /\ proc'._connections = proc._connections + 1
                   /\ proc'.served = proc.served \cup {msg.socket}
                   /\ proc'.emitted = Append(proc.emitted, msg.socket)
              ELSE /\ proc'._connections = proc._connections
                   /\ proc'.served = proc.served
                   /\ proc'.emitted = proc.emitted]_vars

\* C14 per listener: what the handler does hold.  A balancing message with
\* a socket adds to the counter, and emits, once for every call of start()
\* the worker has made; any other message changes nothing.
MessageHandledPerListener ==
    [][(proc'.received = proc.received + 1) =>
          LET msg == proc'.lastMsg
              n == IF msg.body = "balancing" /\ msg.socket # Undefined
                   THEN proc.handlers
                   ELSE 0
          IN  /\ proc'._connections = proc._connections + n
              /\ proc'.emitted = proc.emitted \o [i \in 1 .. n |-> msg.socket]
              /\ proc'.served = proc.served
                                   \cup (IF n > 0 THEN {msg.socket} ELSE {})
              /\ proc'.handlers = proc.handlers
              /\ proc.handlers = proc.starts]_vars

\* a worker that called start() once has received a balancing message
\* without a socket, a balancing message with its socket and another kind
\* of message with a socket, and emitted one connection, for the second
OneOfThreeMessagesServed ==
    /\ proc.handlers = 1
    /\ proc.received = 3
    /\ proc._connections = 1
    /\ proc.emitted = <<2>>
    /\ proc.lastMsg = [body |-> "shutdown", socket |-> 3]

\* a worker that called start() twice has emitted two connections for one
\* socket
SocketServedTwice ==
    /\ proc.handlers = 2
    /\ proc.received = 1
    /\ proc._connections = 2
    /\ proc.emitted = <<1, 1>>

\* C15: in cluster mode a process forked by the master never binds the
\* port, neither through its transport nor through the cluster's server,
\* and its transport's listen is replaced before the transport is started.
WorkerNeverBinds ==
    (proc.isClusterMode /\ proc.forked) =>
        /\ ~proc.transportBound
        /\ ~proc.clusterListening
        /\ proc.pc = "started" => proc.listenFaked

\* C15 witness: a forked worker has run start() and bound nothing, while a
\* process outside cluster mode would have bound its transport.
WorkerStartedUnbound ==
    /\ proc.isClusterMode
    /\ proc.forked
    /\ proc.pc = "started"
    /\ proc.listenFaked
    /\ ~proc.transportBound

\* C19: every evaluation of isMaster in one process returns the same role,
\* master in a process that was not forked and worker in a forked one.
RoleStable ==
    proc.isClusterMode =>
        \A i \in 1 .. Len(proc.returned) : proc.returned[i] = ~proc.forked


\* the mixer as C17 states it: every addition is reduced modulo 2^31 to a
\* value in 0 .. 2^31 - 1, h << k is h * 2^k, and h >> k drops the low k
\* bits of a value that is never negative
ModAdd31(a, b) ==
    LET a0 == IF a < 0 THEN (a + MaxInt32) + 1 ELSE a
    IN  IF a0 > MaxInt32 - b THEN (a0 - (MaxInt32 - b)) - 1 ELSE a0 + b

\* (h * 2^k) modulo 2^31
ModShl31(h, k) == (h % (2 ^ (31 - k))) * (2 ^ k)

statedByte(h, b) ==
    LET h1 == ModAdd31(h, b)
        h2 == ModAdd31(h1, ModShl31(h1, 10))
    IN  XorNat(h2, h2 \div (2 ^ 6))

RECURSIVE statedLoop(_, _, _)
statedLoop(h, ip, i) ==
    IF i > Len(ip) THEN h ELSE statedLoop(statedByte(h, ip[i]), ip, i + 1)

statedMixer(seedv, ip) ==
    LET h0 == statedLoop(seedv, ip, 1)
        h1 == ModAdd31(h0, ModShl31(h0, 3))
        h2 == XorNat(h1, h1 \div (2 ^ 11))
    IN  ModAdd31(h2, ModShl31(h2, 15))

\* C17 as stated: hash returns the value of the mixer whose additions wrap
\* modulo 2^31 and whose shifts are logical, read as an unsigned 32-bit
\* number.
HashIsStatedMixer ==
    hashed.out # <<>> =>
        hashed.out[1] = ToUint32(statedMixer(hashed.seed, hashed.ip))

\* the mixer of C17 amended, on 32-bit two's complement words, bit 1 the
\* lowest and bit 32 the sign
WordOf(x) ==
    SubSeq([i \in 1 .. 32 |-> IF i = 32
                              THEN (IF x < 0 THEN 1 ELSE 0)
                              ELSE (x \div (2 ^ (i - 1))) % 2], 1, 32)

\* w << k: the high k bits fall off
wordShl(w, k) ==
    SubSeq([i \in 1 .. 32 |-> IF i <= k THEN 0 ELSE w[i - k]], 1, 32)

\* w >> k: the sign bit fills the high k bits
wordSar(w, k) ==
    SubSeq([i \in 1 .. 32 |-> IF i + k > 32 THEN w[32] ELSE w[i + k]], 1, 32)

wordXor(w, v) == SubSeq([i \in 1 .. 32 |-> (w[i] + v[i]) % 2], 1, 32)

\* bits i .. 33 of the 33-bit two's complement sum of two words
RECURSIVE wordSum(_, _, _, _)
wordSum(w, v, i, carry) ==
    IF i > 33 THEN <<>>
    ELSE LET j == IF i = 33 THEN 32 ELSE i
             t == w[j] + v[j] + carry
         IN  IF t >= 2
             THEN <<t - 2>> \o wordSum(w, v, i + 1, 1)
             ELSE <<t>> \o wordSum(w, v, i + 1, 0)

\* the sum reduced by the remainder that keeps the sign of the sum: its low
\* 31 bits, under the sign of the sum unless they are all zero
wordAddRem(w, v) ==
    LET s == wordSum(w, v, 1, 0)
        low == SubSeq(s, 1, 31)
    IN  IF s[33] = 0 \/ \A i \in 1 .. 31 : low[i] = 0
        THEN Append(low, 0)
        ELSE Append(low, 1)

wordByte(w, b) ==
    LET h1 == wordAddRem(w, WordOf(b))
        h2 == wordAddRem(h1, wordShl(h1, 10))
    IN  wordXor(h2, wordSar(h2, 6))

\* the rounds over the bytes from the i-th on; every round is worked out,
\* to a word of 32 bits, before the next one starts
RECURSIVE wordLoop(_, _, _)
wordLoop(w, ip, i) ==
    IF i > Len(ip) THEN w
    ELSE LET next == wordByte(w, ip[i])
         IN  IF Len(next) = 32 THEN wordLoop(next, ip, i + 1) ELSE next

wordMixer(seedv, ip) ==
    LET h0 == wordLoop(WordOf(seedv), ip, 1)
        h1 == wordAddRem(h0, wordShl(h0, 3))
        h2 == wordXor(h1, wordSar(h1, 11))
    IN  wordAddRem(h2, wordShl(h2, 15))

\* the number whose bits are w[i] .. w[j], lowest first
RECURSIVE wordBits(_, _, _)
wordBits(w, i, j) == IF i > j THEN 0 ELSE w[i] + (2 * wordBits(w, i + 1, j))

\* the word read as an unsigned 32-bit number, in 16-bit halves
wordUnsigned(w) == [hi |-> wordBits(w, 17, 32), lo |-> wordBits(w, 1, 16)]

\* C17 amended: hash returns the value of the mixer computed on signed
\* 32-bit words: every addition is followed by the remainder by 2^31 that
\* keeps the sign of the sum, << drops the bits shifted out of the word,
\* >> propagates the sign bit, and the final word is read as unsigned.
HashIsWordMixer ==
    hashed.out # <<>> =>
        hashed.out[1] = wordUnsigned(wordMixer(hashed.seed, hashed.ip))

\* C17 witness: a negative seed over three bytes was hashed to a value of
\* 2^31 or more, which no addition modulo 2^31 can end on.
NegativeSeedHashed ==
    /\ hashed.seed = -5
    /\ hashed.ip = <<46, 49, 255>>
    /\ hashed.out # <<>>
    /\ hashed.out[1].hi >= 32768

=============================================================================
